---------------------------- MODULE Spec2Model ----------------------------
(***************************************************************************)
(* A model of file_syncer.syncer.FileSyncer: the sync and restore runs of  *)
(* several processes against one remote container and its manifest.        *)
(*                                                                         *)
(* Paths, relative names and exclude patterns are sequences of path        *)
(* symbols ("/", ".", a directory or file name, "*", "?").  File names are *)
(* ASCII, so a name read back from the JSON manifest equals the name the   *)
(* local scan produces.  Of an item's fields                               *)
(* (name, remote_name, path, last_modified, md5_hash) the model keeps the  *)
(* three the code reads: remote_name, path and last_modified.              *)
(***************************************************************************)
EXTENDS Integers, Sequences, FiniteSets, TLC

(***************************************************************************)
(* Bounds of the model.                                                    *)
(***************************************************************************)
\* the local clock runs from 1 to MaxTime; a touched or created file gets
\* the next tick as its mtime
MaxTime == 3
\* the size of the gevent pool of every FileSyncer (constructor argument)
Concurrency == 1
\* how many runs the sequential specification starts, one after the other
MaxRuns == 3

Procs == {"p1", "p2"}
Files == {"a", "b"}
Dirs == {"d1", "d2"}
\* the directory the user edits between runs
EditedDirs == {"d1"}
Times == 1..MaxTime
\* the files that have a first copy, of mtime 1, to put back
BackdatedFiles == {"a"}

\* the directory argument as the caller spelled it
DIR1 == <<"/", "srv", "/", "d1">>
DIR1DOT == <<"/", "srv", "/", ".", "/", "d1">>
DIR2 == <<"/", "srv", "/", "d2">>
\* the working directories a process may be started in
CWD1 == <<"/", "srv">>
CWD2 == <<"/", "tmp">>

\* a directory that does not exist
DIR3 == <<"/", "srv", "/", "d3">>

\* what a process is launched with: directory spelling and working directory
Launch1 == [directory |-> DIR1, cwd |-> CWD1]
LaunchNoDir == [directory |-> DIR3, cwd |-> CWD1]
Launches ==
  { Launch1,
    [directory |-> DIR1DOT, cwd |-> CWD1],
    [directory |-> DIR1, cwd |-> CWD2],
    [directory |-> DIR2, cwd |-> CWD1] }

\* exclude_patterns as run.py builds them: [''] when no --exclude is given
NoExclude == << <<>> >>
ExcludeA == << <<"*", "a">> >>
ExcludeChoices == {NoExclude, ExcludeA}

\* the directory on disk a spelling denotes (the operating system's path
\* resolution)
RealDir(directory) ==
  IF directory = DIR2 THEN "d2" ELSE "d1"

\* os.path.exists(directory)
DirExists(directory) == directory # DIR3

\* the keyword arguments run.py passes to FileSyncer (lines 109-121) and the
\* parameters FileSyncer.__init__ has (lines 44-46)
CliKeywords ==
  { "directory", "provider_cls", "provider", "region", "username", "api_key",
    "container_name", "cache_path", "exclude_patterns", "logger", "concurrency",
    "no_content_type", "follow_symlinks" }
InitParameters ==
  { "directory", "provider_cls", "username", "api_key", "container_name",
    "cache_path", "exclude_patterns", "logger", "concurrency" }

\* the positional arguments run.py passes to sync and to restore (lines
\* 122-125) and the parameters the two methods have besides self
CliCallArguments(mode) == IF mode = "sync" THEN << "delete" >> ELSE << >>
MethodParameters(mode) == << >>

\* a Python call binds when every keyword names a parameter and there are
\* no more positional arguments than parameters
CallBinds(keywords, arguments, names, positional) ==
  /\ keywords \subseteq names
  /\ Len(arguments) <= Len(positional)

\* the command lines tried: a valid one for sync and for restore, and one
\* with each kind of configuration error
ValidCli(restore) ==
  [used |-> TRUE, required |-> TRUE, provider |-> TRUE, log_level |-> TRUE,
   directory |-> TRUE, restore |-> restore]
CliChoices ==
  { ValidCli(TRUE), ValidCli(FALSE),
    [ValidCli(FALSE) EXCEPT !.required = FALSE],
    [ValidCli(FALSE) EXCEPT !.provider = FALSE],
    [ValidCli(FALSE) EXCEPT !.log_level = FALSE],
    [ValidCli(FALSE) EXCEPT !.directory = FALSE] }

EmptyDict == [n \in {} |-> 0]

(***************************************************************************)
(* Pure helpers.                                                           *)
(***************************************************************************)
\* all the orders a dict's values() may come in
Perms(S) ==
  { s \in [1..Cardinality(S) -> S] : \A i, j \in 1..Cardinality(S) : i # j => s[i] # s[j] }

Range(s) == { s[i] : i \in DOMAIN s }

\* str.replace(old, ''): every non-overlapping occurrence of old, left to
\* right, is dropped
RECURSIVE Replace(_, _)
Replace(s, old) ==
  IF Len(s) < Len(old) \/ old = <<>> THEN s
  ELSE IF SubSeq(s, 1, Len(old)) = old
       THEN Replace(SubSeq(s, Len(old) + 1, Len(s)), old)
       ELSE <<Head(s)>> \o Replace(Tail(s), old)

\* fnmatch.fnmatch(name, pat): "*" matches any run of symbols, "?" one
RECURSIVE FnMatch(_, _)
FnMatch(name, pat) ==
  IF pat = <<>> THEN name = <<>>
  ELSE IF Head(pat) = "*"
       THEN FnMatch(name, Tail(pat)) \/ (name # <<>> /\ FnMatch(Tail(name), pat))
       ELSE /\ name # <<>>
            /\ (Head(pat) = "?" \/ Head(pat) = Head(name))
            /\ FnMatch(Tail(name), Tail(pat))

\* os.path.join(base_path, dirpath, name): an absolute dirpath discards
\* base_path
PathJoin(base_path, dirpath, name) ==
  LET front == IF dirpath # <<>> /\ Head(dirpath) = "/"
               THEN dirpath
               ELSE base_path \o <<"/">> \o dirpath
  IN IF front # <<>> /\ front[Len(front)] = "/"
     THEN front \o <<name>>
     ELSE front \o <<"/">> \o <<name>>

\* os.path.abspath(directory) for the absolute spellings of Launches
AbsPath(directory) ==
  IF directory = DIR1DOT THEN DIR1 ELSE directory

\* FileSyncer._get_item_remote_name
GetItemRemoteName(directory, file_path) == Replace(file_path, directory)

IncludeFileAlways(file_name, exclude_patterns) == TRUE

\* FileSyncer._include_file
IncludeFile(file_name, exclude_patterns) ==
  ~ \E i \in DOMAIN exclude_patterns : FnMatch(file_name, exclude_patterns[i])

\* FileSyncer._get_local_files over the flat directory tree `tree`
\* (file name -> mtime, 0 for a file that does not exist)
GetLocalFiles(directory, exclude_patterns, tree) ==
  LET base_path == AbsPath(directory)
      FilePath(f) == PathJoin(base_path, directory, f)
      Kept == { f \in DOMAIN tree :
                  /\ tree[f] # 0
                  /\ IncludeFile(GetItemRemoteName(directory, FilePath(f)),
                                 exclude_patterns) }
      FileOf(n) == CHOOSE f \in Kept : GetItemRemoteName(directory, FilePath(f)) = n
  IN [ n \in { GetItemRemoteName(directory, FilePath(f)) : f \in Kept } |->
         [ remote_name |-> n,
           path |-> FilePath(FileOf(n)),
           last_modified |-> tree[FileOf(n)] ] ]

\* the comparison of line 343
NotOlder(local_item, remote_item) ==
  local_item.last_modified >= remote_item.last_modified

IsModified(local_item, remote_item) ==
  local_item.last_modified > remote_item.last_modified

GetDifferencesAllRemoved(local, remote) ==
  [ added |-> [ n \in { m \in DOMAIN local : m \notin DOMAIN remote } |-> local[n] ],
    modified |-> [ n \in { m \in DOMAIN local :
                     m \in DOMAIN remote /\ IsModified(local[m], remote[m]) } |-> local[n] ],
    removed |-> remote ]

\* FileSyncer._get_differences
GetDifferences(local, remote) ==
  LET Added == { n \in DOMAIN local : n \notin DOMAIN remote }
      Modified == { n \in DOMAIN local :
                      n \in DOMAIN remote /\ IsModified(local[n], remote[n]) }
      Gone == { k \in DOMAIN remote : remote[k].remote_name \notin DOMAIN local }
  IN [ added |-> [ n \in Added |-> local[n] ],
       modified |-> [ n \in Modified |-> local[n] ],
       removed |-> [ n \in { remote[k].remote_name : k \in Gone } |->
                       remote[CHOOSE k \in Gone : remote[k].remote_name = n] ] ]

CalculateActionsNoRemovals(differences, up_order, rm_order) ==
  [ to_upload |-> up_order, to_remove |-> << >> ]

\* FileSyncer._calculate_actions, for one order of the dicts' values()
CalculateActions(differences, up_order, rm_order) ==
  [ to_upload |-> up_order, to_remove |-> rm_order ]

\* the orders _calculate_actions may list the items in
UploadOrders(differences) ==
  { a \o m : a \in Perms(Range(differences.added)),
             m \in Perms(Range(differences.modified)) }

RemoveOrders(differences) == Perms(Range(differences.removed))

(***************************************************************************)
(* The manifest object and its JSON form.                                  *)
(***************************************************************************)
NoObject == [kind |-> "absent"]
Garbage == [kind |-> "garbage"]
JsonArray == [kind |-> "json_array", elements |-> <<>>]

\* json.dumps(manifest): the dict as a JSON object, one member per key
JsonDumps(manifest) ==
  [ kind |-> "json_object",
    members |-> { <<k, manifest[k]>> : k \in DOMAIN manifest } ]

\* json.loads(data) raises on text that is not JSON
JsonParses(data) == data.kind \in {"json_object", "json_array"}

\* json.loads(data): a JSON object gives a dict, a JSON array a list
JsonLoads(data) ==
  IF data.kind = "json_object"
  THEN [ type |-> "dict",
         value |-> [ k \in { m[1] : m \in data.members } |->
                       (CHOOSE m \in data.members : m[1] = k)[2] ] ]
  ELSE [ type |-> "list", value |-> data.elements ]

\* FileSyncer._generate_manifest: the uploads are applied in list order,
\* then the removals
RECURSIVE ApplyUploaded(_, _)
ApplyUploaded(manifest, items) ==
  IF items = <<>> THEN manifest
  ELSE LET item == Head(items)
           next == [ n \in DOMAIN manifest \cup {item.remote_name} |->
                       IF n = item.remote_name THEN item ELSE manifest[n] ]
       IN ApplyUploaded(next, Tail(items))

RECURSIVE ApplyRemoved(_, _)
ApplyRemoved(manifest, items) ==
  IF items = <<>> THEN manifest
  ELSE LET item == Head(items)
           next == [ n \in DOMAIN manifest \ {item.remote_name} |-> manifest[n] ]
       IN ApplyRemoved(next, Tail(items))

GenerateManifestWithoutUploads(remote, uploaded_items, removed_items) ==
  ApplyRemoved(remote, removed_items)

GenerateManifest(remote, uploaded_items, removed_items) ==
  ApplyRemoved(ApplyUploaded(remote, uploaded_items), removed_items)

\* hashlib.md5(s).hexdigest(): a digest of the string, taken collision free
Md5(s) == <<"md5", s>>

\* lines 112-113 and 161-162: the lock file is named by the digest of the
\* directory as given, a relative path, which the lock opens in the
\* process's working directory
LockFilePath(directory, cwd) == cwd \o <<"/">> \o <<Md5(directory)>>

(***************************************************************************)
(* State.                                                                  *)
(***************************************************************************)
VARIABLES
  fs,            \* the local disk: directory -> file -> mtime (0: no file)
  clock,         \* the local time
  manifestObj,   \* the manifest object of the container, as stored
  objects,       \* names of the other objects of the container
  locks,         \* lock files that are held
  pc,            \* where each process is
  cfg,           \* each FileSyncer's constructor arguments
  local_files,   \* sync's local_files
  remote_files,  \* sync's remote_files
  actions,       \* sync's actions, as _calculate_actions returned them
  todo,          \* the tasks the loops hand to the pool, in order
  spawned,       \* how many of todo pool.spawn has taken
  fetched,       \* what the manifest object held when the run fetched it
  running,       \* the pool's greenlets that have not finished
  uploaded,      \* self._uploaded
  removed,       \* self._removed
  err,           \* the exception that left the protected region
  okUploads,     \* items whose upload succeeded in the current run
  okRemovals,    \* items whose removal succeeded in the current run
  failed,        \* tasks of the current run that failed
  gone,          \* items whose delete_object found no such object
  persisted,     \* the manifest this run wrote (NotWritten: none)
  writes,        \* how many times this run wrote the manifest object
  runs,          \* how many runs have been started
  prev,          \* the last sync run that wrote the manifest (NoPrev: none)
  dL, dR, dOut,  \* inputs and result of the differ and planner alone
  cache_dir,     \* the cache directory exists
  container,     \* the container exists
  setup,         \* the I/O calls __init__ made for each FileSyncer
  cli            \* the options of each process started by the command line

envVars == << fs, clock, manifestObj, objects >>
instVars == << cfg, uploaded, removed >>
frameVars == << local_files, remote_files, actions, todo, spawned, fetched >>
taskVars == << okUploads, okRemovals, failed, gone >>
writeVars == << persisted, writes, prev >>
diffVars == << dL, dR, dOut >>
setupVars == << cache_dir, container, setup, cli >>

vars == << envVars, locks, pc, instVars, frameVars, running, err, taskVars,
           writeVars, runs, diffVars, setupVars >>

NoPlan == [to_upload |-> <<>>, to_remove |-> <<>>]
NoPrev == [kind |-> "none", directory |-> <<>>, exclude_patterns |-> <<>>,
          local |-> EmptyDict, persisted |-> EmptyDict, clean |-> FALSE]
NoOut == [done |-> FALSE, differences |-> [added |-> EmptyDict,
          modified |-> EmptyDict, removed |-> EmptyDict], actions |-> NoPlan]
NoCfg == [directory |-> <<>>, cwd |-> <<>>, exclude_patterns |-> <<>>,
          mode |-> "none"]
NoCli == [used |-> FALSE, required |-> TRUE, provider |-> TRUE, log_level |-> TRUE,
          directory |-> TRUE, restore |-> FALSE]

\* the file of the flat directory a path or a relative name ends in
LastOf(path) == path[Len(path)]

Dir(p) == RealDir(cfg[p].directory)
Lock(p) == LockFilePath(cfg[p].directory, cfg[p].cwd)

\* lines 140-146 and 169-171: func takes the item as its argument, which
\* pool.spawn passes, so each greenlet works on the item of its own turn of
\* the loop (a closure over the loop variable would see the last item)
TaskSeqLateBound(items, kind) ==
  [ i \in DOMAIN items |-> [kind |-> kind, item |-> items[Len(items)]] ]

TaskSeq(items, kind) == [ i \in DOMAIN items |-> [kind |-> kind, item |-> items[i]] ]

\* pool.join() returns: every loop has handed its items over and no
\* greenlet is left
PoolJoinedEarly(p) == spawned[p] = Len(todo[p])

PoolJoined(p) == spawned[p] = Len(todo[p]) /\ running[p] = {}

\* Pool(size).spawn blocks while size greenlets are unfinished
PoolFullNever(p) == FALSE

PoolFull(p) == Cardinality(running[p]) >= Concurrency

(***************************************************************************)
(* Initial state: one file in each directory, no manifest yet.             *)
(***************************************************************************)
InitRun ==
  /\ fs = [ d \in Dirs |-> [ f \in Files |->
              IF (d = "d1" /\ f = "a") \/ (d = "d2" /\ f = "b") THEN 1 ELSE 0 ] ]
  /\ clock = 1
  /\ manifestObj = NoObject
  /\ objects = {}
  /\ locks = {}
  /\ pc = [ p \in Procs |-> "idle" ]
  /\ cfg = [ p \in Procs |-> NoCfg ]
  /\ local_files = [ p \in Procs |-> EmptyDict ]
  /\ remote_files = [ p \in Procs |-> EmptyDict ]
  /\ actions = [ p \in Procs |-> NoPlan ]
  /\ todo = [ p \in Procs |-> <<>> ]
  /\ spawned = [ p \in Procs |-> 0 ]
  /\ fetched = [ p \in Procs |-> "unread" ]
  /\ running = [ p \in Procs |-> {} ]
  /\ uploaded = [ p \in Procs |-> <<>> ]
  /\ removed = [ p \in Procs |-> <<>> ]
  /\ err = [ p \in Procs |-> "none" ]
  /\ okUploads = [ p \in Procs |-> {} ]
  /\ okRemovals = [ p \in Procs |-> {} ]
  /\ failed = [ p \in Procs |-> {} ]
  /\ gone = [ p \in Procs |-> {} ]
  /\ persisted = [ p \in Procs |-> EmptyDict ]
  /\ writes = [ p \in Procs |-> 0 ]
  /\ runs = 0
  /\ prev = NoPrev
  /\ cache_dir = FALSE
  /\ container = FALSE
  /\ setup = [ p \in Procs |-> {} ]
  /\ cli = [ p \in Procs |-> NoCli ]

Init ==
  /\ InitRun
  /\ dL = EmptyDict
  /\ dR = EmptyDict
  /\ dOut = NoOut

(***************************************************************************)
(* The operations of a run.                                                *)
(***************************************************************************)
\* _setup_cache_path and _setup_container: the cache directory is made when
\* it is missing, the container is looked up and created when missing
SetupCalls ==
  (IF cache_dir THEN {} ELSE {"makedirs"})
    \cup {"get_container"}
    \cup (IF container THEN {} ELSE {"create_container"})

\* FileSyncer.__init__, lines 60-68: the I/O calls it makes, given whether
\* the directory exists
InitCallsBeforeCheck(exists) == SetupCalls

InitCalls(exists) == IF exists THEN SetupCalls ELSE {}

\* FileSyncer(...) followed by the call of sync or restore, up to the lock;
\* binds: the call of the method binds its arguments
Construct(p, launch, excl, mode, binds) ==
  LET exists == DirExists(launch.directory)
      calls == InitCalls(exists)
  IN /\ cfg' = [cfg EXCEPT ![p] = [directory |-> launch.directory, cwd |-> launch.cwd,
                                   exclude_patterns |-> excl, mode |-> mode]]
     /\ uploaded' = [uploaded EXCEPT ![p] = <<>>]
     /\ removed' = [removed EXCEPT ![p] = <<>>]
     /\ setup' = [setup EXCEPT ![p] = calls]
     /\ cache_dir' = (cache_dir \/ "makedirs" \in calls)
     /\ container' = (container \/ "create_container" \in calls)
     /\ pc' = [pc EXCEPT ![p] = IF exists /\ binds THEN "acquire" ELSE "done"]
     /\ err' = [err EXCEPT ![p] = IF ~ exists THEN "ValueError"
                                  ELSE IF ~ binds THEN "TypeError" ELSE @]

\* a caller of the class: FileSyncer(...) and sync() or restore()
Start(p, launch, excl, mode) ==
  /\ pc[p] = "idle"
  /\ runs < MaxRuns
  /\ runs' = runs + 1
  /\ Construct(p, launch, excl, mode, TRUE)
  /\ UNCHANGED << envVars, locks, frameVars, running, taskVars, writeVars,
                  diffVars, cli >>

\* run.py, lines 81-125: the options are checked in turn, then FileSyncer is
\* constructed and restore or sync is called
Cli(p, options, excl) ==
  /\ pc[p] = "idle"
  /\ runs < MaxRuns
  /\ runs' = runs + 1
  /\ cli' = [cli EXCEPT ![p] = options]
  /\ LET mode == IF options.restore THEN "restore" ELSE "sync"
         launch == IF options.directory THEN Launch1 ELSE LaunchNoDir
     IN IF ~ (options.required /\ options.provider /\ options.log_level)
        THEN /\ pc' = [pc EXCEPT ![p] = "done"]
             /\ err' = [err EXCEPT ![p] = "ValueError"]
             /\ UNCHANGED << instVars, cache_dir, container, setup >>
        ELSE IF ~ CallBinds(CliKeywords, << >>, InitParameters, << >>)
        THEN /\ pc' = [pc EXCEPT ![p] = "done"]
             /\ err' = [err EXCEPT ![p] = "TypeError"]
             /\ UNCHANGED << instVars, cache_dir, container, setup >>
        ELSE Construct(p, launch, excl, mode,
                       CallBinds({}, CliCallArguments(mode), {}, MethodParameters(mode)))
  /\ UNCHANGED << envVars, locks, frameVars, running, taskVars, writeVars,
                  diffVars >>

\* the lock file cannot be created (no permission in the working directory):
\* the with statement raises before the protected region is entered
AcquireFails(p) ==
  /\ pc[p] = "acquire"
  /\ pc' = [pc EXCEPT ![p] = "done"]
  /\ err' = [err EXCEPT ![p] = "LockError"]
  /\ UNCHANGED << envVars, locks, instVars, frameVars, running, taskVars,
                  writeVars, runs, diffVars, setupVars >>

\* with FileLock(lock_file_path, timeout=None): blocks while the file is held
Acquire(p) ==
  /\ pc[p] = "acquire"
  /\ Lock(p) \notin locks
  /\ locks' = locks \cup {Lock(p)}
  /\ pc' = [pc EXCEPT ![p] = IF cfg[p].mode = "sync" THEN "scan" ELSE "fetch"]
  /\ UNCHANGED << envVars, instVars, frameVars, running, err, taskVars,
                  writeVars, runs, diffVars,
                  setupVars >>

\* leaving the protected region by an exception
Raise(p, error) ==
  /\ pc' = [pc EXCEPT ![p] = "exit"]
  /\ err' = [err EXCEPT ![p] = error]

\* sync, line 120: the scan returns the snapshot, or os.walk / os.path.getmtime
\* raises (line 265, a file that vanished under the scan) and the error
\* leaves sync
Scan(p, ok) ==
  /\ pc[p] = "scan"
  /\ IF ok
     THEN /\ local_files' = [local_files EXCEPT ![p] =
               GetLocalFiles(cfg[p].directory, cfg[p].exclude_patterns, fs[Dir(p)])]
          /\ pc' = [pc EXCEPT ![p] = "fetch"]
          /\ err' = err
     ELSE /\ Raise(p, "ScanError")
          /\ local_files' = local_files
  /\ UNCHANGED << envVars, locks, instVars, remote_files, actions, todo, spawned,
                  fetched, running, taskVars, writeVars, runs, diffVars,
                  setupVars >>

GetRemoteFilesLenient(data) ==
  IF data.kind = "absent" \/ ~ JsonParses(data)
  THEN [does |-> "return", type |-> "dict", value |-> EmptyDict]
  ELSE [does |-> "return", type |-> JsonLoads(data).type, value |-> JsonLoads(data).value]

\* what _get_remote_files does with the stored manifest object: "raise" with
\* the corrupted-manifest error, or "return" the parsed value
GetRemoteFiles(data) ==
  IF data.kind = "absent" THEN [does |-> "return", type |-> "dict", value |-> EmptyDict]
  ELSE IF ~ JsonParses(data) THEN [does |-> "raise", error |-> "CorruptedManifest"]
  ELSE [does |-> "return", type |-> JsonLoads(data).type, value |-> JsonLoads(data).value]

\* sync, lines 124-134: fetch the manifest, diff, plan.  A list has no
\* get/iteritems: the differ raises AttributeError
FetchSync(p) ==
  /\ pc[p] = "fetch"
  /\ cfg[p].mode = "sync"
  /\ fetched' = [fetched EXCEPT ![p] = manifestObj.kind]
  /\ LET got == GetRemoteFiles(manifestObj)
     IN IF got.does = "raise"
        THEN /\ Raise(p, got.error)
             /\ UNCHANGED << remote_files, actions, todo >>
        ELSE IF got.type # "dict"
        THEN /\ Raise(p, "AttributeError")
             /\ remote_files' = [remote_files EXCEPT ![p] = got.value]
             /\ UNCHANGED << actions, todo >>
        ELSE LET differences == GetDifferences(local_files[p], got.value)
             IN \E up \in UploadOrders(differences), rm \in RemoveOrders(differences) :
                  LET plan == CalculateActions(differences, up, rm)
                  IN /\ remote_files' = [remote_files EXCEPT ![p] = got.value]
                     /\ actions' = [actions EXCEPT ![p] = plan]
                     /\ todo' = [todo EXCEPT ![p] =
                          TaskSeq(plan.to_remove, "remove") \o TaskSeq(plan.to_upload, "upload")]
                     /\ pc' = [pc EXCEPT ![p] = "spawn"]
                     /\ err' = err
  /\ UNCHANGED << envVars, locks, instVars, local_files, spawned, running,
                  taskVars, writeVars, runs, diffVars,
                  setupVars >>

RestoreOrdersFirstOnly(got) ==
  IF got.type = "dict"
  THEN { IF order = <<>> THEN order ELSE << order[1] >> :
           order \in Perms(DOMAIN got.value) }
  ELSE {got.value}

\* restore, line 169: iterating the parsed manifest yields each key of a
\* dict once, in the dict's order, and the elements of a list
RestoreOrders(got) ==
  IF got.type = "dict" THEN Perms(DOMAIN got.value) ELSE {got.value}

\* restore, line 169: one download per element the parsed manifest yields
FetchRestore(p) ==
  /\ pc[p] = "fetch"
  /\ cfg[p].mode = "restore"
  /\ fetched' = [fetched EXCEPT ![p] = manifestObj.kind]
  /\ LET got == GetRemoteFiles(manifestObj)
     IN IF got.does = "raise"
        THEN /\ Raise(p, got.error)
             /\ UNCHANGED << remote_files, todo >>
        ELSE \E order \in RestoreOrders(got) :
               /\ remote_files' = [remote_files EXCEPT ![p] = got.value]
               /\ todo' = [todo EXCEPT ![p] = TaskSeq(order, "download")]
               /\ pc' = [pc EXCEPT ![p] = "spawn"]
               /\ err' = err
  /\ UNCHANGED << envVars, locks, instVars, local_files, actions, spawned,
                  running, taskVars, writeVars, runs, diffVars,
                  setupVars >>

\* the loops of lines 140-146 and 169-171: each item goes to the pool once,
\* bound to its own greenlet
Spawned(p) ==
  /\ running' = [running EXCEPT ![p] = @ \cup {todo[p][spawned[p] + 1]}]
  /\ spawned' = [spawned EXCEPT ![p] = @ + 1]

\* pool.spawn(func, item), lines 140-146 and 169-171
Spawn(p) ==
  /\ pc[p] = "spawn"
  /\ spawned[p] < Len(todo[p])
  /\ ~ PoolFull(p)
  /\ Spawned(p)
  /\ UNCHANGED << envVars, locks, pc, instVars, local_files, remote_files,
                  actions, todo, fetched, err, taskVars, writeVars, runs,
                  diffVars,
                  setupVars >>

\* the except clause of a task: the error is logged and the task returns;
\* the run goes on
Propagated(p, ok) ==
  IF ok THEN UNCHANGED << pc, err >> ELSE Raise(p, "TaskError")

Isolated(p, ok) == UNCHANGED << pc, err >>

\* what a finished task leaves in self._removed / self._uploaded
RecordAlways(list, item, ok) == Append(list, item)

Record(list, item, ok) == IF ok THEN Append(list, item) ELSE list

\* the answers of driver.delete_object: the object is deleted, or the call
\* raises ObjectDoesNotExistError, or it raises another error
DeleteOutcomes(exists) ==
  IF exists THEN {"deleted", "error"} ELSE {"not_found", "error"}

\* FileSyncer._remove_object: every exception of delete_object is caught by
\* the one except clause; the item is recorded only after a clean call
RemoveObject(p, t, outcome) ==
  /\ t \in running[p]
  /\ t.kind = "remove"
  /\ outcome \in DeleteOutcomes(t.item.remote_name \in objects)
  /\ LET ok == outcome = "deleted"
     IN /\ objects' = IF ok THEN objects \ {t.item.remote_name} ELSE objects
        /\ removed' = [removed EXCEPT ![p] = Record(@, t.item, ok)]
        /\ okRemovals' = [okRemovals EXCEPT ![p] = IF ok THEN @ \cup {t.item} ELSE @]
        /\ failed' = [failed EXCEPT ![p] = IF ok THEN @ ELSE @ \cup {t}]
        /\ Isolated(p, ok)
  /\ gone' = [gone EXCEPT ![p] = IF outcome = "not_found" THEN @ \cup {t.item} ELSE @]
  /\ running' = [running EXCEPT ![p] = @ \ {t}]
  /\ UNCHANGED << fs, clock, manifestObj, locks, cfg, uploaded, frameVars,
                  okUploads, writeVars, runs, diffVars,
                  setupVars >>

\* FileSyncer._upload_object: upload_object raises when the call fails or
\* the local file is gone
UploadObject(p, t, ok) ==
  /\ t \in running[p]
  /\ t.kind = "upload"
  /\ ok => fs[Dir(p)][LastOf(t.item.path)] # 0
  /\ objects' = IF ok THEN objects \cup {t.item.remote_name} ELSE objects
  /\ uploaded' = [uploaded EXCEPT ![p] = Record(@, t.item, ok)]
  /\ okUploads' = [okUploads EXCEPT ![p] = IF ok THEN @ \cup {t.item} ELSE @]
  /\ failed' = [failed EXCEPT ![p] = IF ok THEN @ ELSE @ \cup {t}]
  /\ running' = [running EXCEPT ![p] = @ \ {t}]
  /\ Isolated(p, ok)
  /\ UNCHANGED << fs, clock, manifestObj, locks, cfg, removed, frameVars,
                  okRemovals, gone, writeVars, runs, diffVars,
                  setupVars >>

\* restore, lines 171-173: an exception that leaves a task ends its greenlet
\* only; gevent reports it, the pool drops the greenlet and pool.join() does
\* not raise it in restore
GreenletRaisesInParent(p, ok) ==
  IF ok THEN UNCHANGED << pc, err >> ELSE Raise(p, "TaskError")

GreenletEnds(p, ok) == UNCHANGED << pc, err >>

\* FileSyncer._download_remote_file: a missing object is skipped; a failed
\* download_object ends the greenlet with its exception
DownloadRemoteFile(p, t, ok) ==
  /\ t \in running[p]
  /\ t.kind = "download"
  /\ IF t.item \notin objects
     THEN /\ UNCHANGED << fs, failed >>
          /\ GreenletEnds(p, TRUE)
     ELSE IF ok
     THEN /\ fs' = [fs EXCEPT ![Dir(p)][LastOf(t.item)] = clock]
          /\ failed' = failed
          /\ GreenletEnds(p, TRUE)
     ELSE /\ fs' = fs
          /\ failed' = [failed EXCEPT ![p] = @ \cup {t}]
          /\ GreenletEnds(p, FALSE)
  /\ running' = [running EXCEPT ![p] = @ \ {t}]
  /\ UNCHANGED << clock, manifestObj, objects, locks, instVars, frameVars,
                  okUploads, okRemovals, gone, writeVars, runs, diffVars,
                  setupVars >>

\* sync, lines 148-151: pool.join(), _generate_manifest, _upload_manifest;
\* a failed upload of the manifest raises out of the protected region
UploadManifest(p, ok) ==
  /\ pc[p] = "spawn"
  /\ cfg[p].mode = "sync"
  /\ PoolJoined(p)
  /\ LET manifest == GenerateManifest(remote_files[p], uploaded[p], removed[p])
     IN IF ok
        THEN /\ manifestObj' = JsonDumps(manifest)
             /\ persisted' = [persisted EXCEPT ![p] = manifest]
             /\ writes' = [writes EXCEPT ![p] = @ + 1]
             /\ prev' = [ kind |-> "sync",
                          directory |-> cfg[p].directory,
                          exclude_patterns |-> cfg[p].exclude_patterns,
                          local |-> local_files[p],
                          persisted |-> manifest,
                          clean |-> failed[p] = {} ]
             /\ pc' = [pc EXCEPT ![p] = "exit"]
             /\ err' = err
        ELSE /\ Raise(p, "ProviderError")
             /\ UNCHANGED << manifestObj, writeVars >>
  /\ UNCHANGED << fs, clock, objects, locks, instVars, frameVars, running,
                  taskVars, runs, diffVars,
                  setupVars >>

\* restore, line 173: pool.join()
JoinRestore(p) ==
  /\ pc[p] = "spawn"
  /\ cfg[p].mode = "restore"
  /\ PoolJoined(p)
  /\ pc' = [pc EXCEPT ![p] = "exit"]
  /\ UNCHANGED << envVars, locks, instVars, frameVars, running, err, taskVars,
                  writeVars, runs, diffVars,
                  setupVars >>

\* the lock files held once p has left its with block: the context manager
\* releases on a normal end and on an exception alike
HeldAfterCleanExit(p) == IF err[p] = "none" THEN locks \ {Lock(p)} ELSE locks

HeldAfterExit(p) == locks \ {Lock(p)}

\* the end of the with block, reached normally or by an exception: the lock
\* is released and the call returns or raises, its frame gone
Release(p) ==
  /\ pc[p] = "exit"
  /\ locks' = HeldAfterExit(p)
  /\ pc' = [pc EXCEPT ![p] = "done"]
  /\ local_files' = [local_files EXCEPT ![p] = EmptyDict]
  /\ remote_files' = [remote_files EXCEPT ![p] = EmptyDict]
  /\ actions' = [actions EXCEPT ![p] = NoPlan]
  /\ todo' = [todo EXCEPT ![p] = <<>>]
  /\ spawned' = [spawned EXCEPT ![p] = 0]
  /\ fetched' = [fetched EXCEPT ![p] = "unread"]
  /\ okUploads' = [okUploads EXCEPT ![p] = {}]
  /\ okRemovals' = [okRemovals EXCEPT ![p] = {}]
  /\ failed' = [failed EXCEPT ![p] = {}]
  /\ gone' = [gone EXCEPT ![p] = {}]
  /\ persisted' = [persisted EXCEPT ![p] = EmptyDict]
  /\ writes' = [writes EXCEPT ![p] = 0]
  /\ UNCHANGED << envVars, instVars, running, err, prev, runs, diffVars,
                  setupVars >>

\* the run is interrupted from outside (KeyboardInterrupt in the main
\* greenlet): the exception leaves the with block, the greenlets are dropped
Interrupt(p) ==
  /\ pc[p] \in {"scan", "fetch", "spawn"}
  /\ Raise(p, "Interrupted")
  /\ running' = [running EXCEPT ![p] = {}]
  /\ UNCHANGED << envVars, locks, instVars, frameVars, taskVars, writeVars,
                  runs, diffVars,
                  setupVars >>

\* the process ends; a later run is a new process with a new FileSyncer
Exit(p) ==
  /\ pc[p] = "done"
  /\ pc' = [pc EXCEPT ![p] = "idle"]
  /\ cfg' = [cfg EXCEPT ![p] = NoCfg]
  /\ uploaded' = [uploaded EXCEPT ![p] = <<>>]
  /\ removed' = [removed EXCEPT ![p] = <<>>]
  /\ err' = [err EXCEPT ![p] = "none"]
  /\ setup' = [setup EXCEPT ![p] = {}]
  /\ cli' = [cli EXCEPT ![p] = NoCli]
  /\ UNCHANGED << envVars, locks, frameVars, running, taskVars, writeVars,
                  runs, diffVars, cache_dir, container >>

(***************************************************************************)
(* The environment, between runs: the user's edits of the local files, and *)
(* a foreign writer of the manifest object.  What an edit during a run     *)
(* does to the run, a failed transfer, is an outcome of the task actions.  *)
(***************************************************************************)
Quiet == \A p \in Procs : pc[p] = "idle"

Touch(d, f) ==
  /\ Quiet
  /\ clock < MaxTime
  /\ clock' = clock + 1
  /\ fs' = [fs EXCEPT ![d][f] = clock + 1]
  /\ UNCHANGED << manifestObj, objects, locks, pc, instVars, frameVars, running,
                  err, taskVars, writeVars, runs, diffVars,
                  setupVars >>

Delete(d, f) ==
  /\ Quiet
  /\ fs[d][f] # 0
  /\ fs' = [fs EXCEPT ![d][f] = 0]
  /\ UNCHANGED << clock, manifestObj, objects, locks, pc, instVars, frameVars,
                  running, err, taskVars, writeVars, runs, diffVars,
                  setupVars >>

\* the user puts the first copy of a file back, with the mtime it had
Backdate(d, f) ==
  /\ Quiet
  /\ f \in BackdatedFiles
  /\ fs[d][f] > 1
  /\ fs' = [fs EXCEPT ![d][f] = 1]
  /\ UNCHANGED << clock, manifestObj, objects, locks, pc, instVars, frameVars,
                  running, err, taskVars, writeVars, runs, diffVars,
                  setupVars >>

CorruptManifest(data) ==
  /\ Quiet
  /\ manifestObj.kind \in {"absent", "json_object"}
  /\ manifestObj' = data
  /\ UNCHANGED << fs, clock, objects, locks, pc, instVars, frameVars, running,
                  err, taskVars, writeVars, runs, diffVars,
                  setupVars >>

Step(p, launches) ==
  \/ \E launch \in launches \cup {LaunchNoDir}, excl \in ExcludeChoices,
        mode \in {"sync", "restore"} :
       Start(p, launch, excl, mode)
  \/ \E options \in CliChoices : Cli(p, options, NoExclude)
  \/ Acquire(p)
  \/ AcquireFails(p)
  \/ \E ok \in BOOLEAN : Scan(p, ok)
  \/ FetchSync(p)
  \/ FetchRestore(p)
  \/ Spawn(p)
  \/ \E t \in running[p], outcome \in {"deleted", "not_found", "error"} :
       RemoveObject(p, t, outcome)
  \/ \E t \in running[p], ok \in BOOLEAN : UploadObject(p, t, ok)
  \/ \E t \in running[p], ok \in BOOLEAN : DownloadRemoteFile(p, t, ok)
  \/ \E ok \in BOOLEAN : UploadManifest(p, ok)
  \/ JoinRestore(p)
  \/ Release(p)

Env ==
  \/ \E d \in EditedDirs, f \in Files : Touch(d, f)
  \/ \E d \in EditedDirs, f \in Files : Delete(d, f)
  \/ \E d \in EditedDirs, f \in Files : Backdate(d, f)
  \/ \E data \in {Garbage, JsonArray} : CorruptManifest(data)

\* runs one after the other, each a new process, while the user edits files
Next ==
  \/ Step("p1", {Launch1})
  \/ Interrupt("p1")
  \/ Exit("p1")
  \/ Env

Spec == Init /\ [][Next]_vars

\* a caller keeps its FileSyncer and calls sync() again: __init__ is not run
\* again, and nothing in sync assigns self._uploaded or self._removed
SyncAgain(p) ==
  /\ pc[p] = "done"
  /\ cfg[p].mode = "sync"
  /\ ~ cli[p].used
  /\ err[p] \notin {"ValueError", "TypeError"}
  /\ runs < MaxRuns
  /\ runs' = runs + 1
  /\ pc' = [pc EXCEPT ![p] = "acquire"]
  /\ err' = [err EXCEPT ![p] = "none"]
  /\ UNCHANGED << envVars, locks, instVars, frameVars, running, taskVars,
                  writeVars, diffVars, setupVars >>

\* the sequential runs, where a caller may also reuse its FileSyncer
NextReuse ==
  \/ Next
  \/ SyncAgain("p1")

SpecReuse == Init /\ [][NextReuse]_vars

\* the same runs without outside interruption, under a scheduler that keeps
\* running what can run: gevent resumes every ready greenlet, and every
\* provider call returns or raises
RunStep(p) ==
  \/ Spawn(p)
  \/ \E t \in running[p], outcome \in {"deleted", "not_found", "error"} :
       RemoveObject(p, t, outcome)
  \/ \E t \in running[p], ok \in BOOLEAN : UploadObject(p, t, ok)
  \/ \E t \in running[p], ok \in BOOLEAN : DownloadRemoteFile(p, t, ok)
  \/ \E ok \in BOOLEAN : UploadManifest(p, ok)
  \/ JoinRestore(p)
  \/ Release(p)

NextLive ==
  \/ Step("p1", {Launch1})
  \/ Exit("p1")
  \/ Env

SpecLive == Init /\ [][NextLive]_vars /\ WF_vars(RunStep("p1"))

\* two processes, one run each, side by side
NextConc ==
  \/ \E p \in Procs : Step(p, Launches)

SpecConc == Init /\ [][NextConc]_vars

(***************************************************************************)
(* The differ and the planner alone, over every pair of snapshots.         *)
(***************************************************************************)
RemoteNames == { GetItemRemoteName(DIR1, PathJoin(DIR1, DIR1, f)) : f \in Files }

Entry(n, t) == [ remote_name |-> n, path |-> DIR1 \o n, last_modified |-> t ]

Snapshots ==
  UNION { { [ n \in S |-> Entry(n, ts[n]) ] : ts \in [S -> Times] } :
          S \in SUBSET RemoteNames }

\* the local snapshot is any snapshot, the remote one any manifest the
\* program has written, read back
InitDiff ==
  /\ InitRun
  /\ dL \in Snapshots
  /\ dR \in { GetRemoteFiles(JsonDumps(m)).value : m \in Snapshots }
  /\ dOut = NoOut

Diff ==
  /\ ~ dOut.done
  /\ LET differences == GetDifferences(dL, dR)
     IN \E up \in UploadOrders(differences), rm \in RemoveOrders(differences) :
          dOut' = [ done |-> TRUE, differences |-> differences,
                    actions |-> CalculateActions(differences, up, rm) ]
  /\ UNCHANGED << envVars, locks, pc, instVars, frameVars, running, err,
                  taskVars, writeVars, runs, dL, dR, setupVars >>

SpecDiff == InitDiff /\ [][Diff]_vars

(***************************************************************************)
(* Properties.                                                             *)
(***************************************************************************)
NamesOf(items) == { item.remote_name : item \in items }

InSync(p) == cfg[p].mode = "sync"
InRestore(p) == cfg[p].mode = "restore"

\* the sync run of p has just written the manifest and not yet returned
Wrote(p) == InSync(p) /\ pc[p] = "exit" /\ writes[p] = 1

\* the manifest as a later fetch would read it from the container
StoredManifest == GetRemoteFiles(manifestObj).value

FailedOf(p, kind) == { t.item : t \in { u \in failed[p] : u.kind = kind } }

\* fetched manifest, plus the successful uploads, minus the successful
\* removals
Merged(remote, ups, rms) ==
  [ n \in (DOMAIN remote \cup NamesOf(ups)) \ NamesOf(rms) |->
      IF n \in NamesOf(ups)
      THEN CHOOSE item \in ups : item.remote_name = n
      ELSE remote[n] ]

\* C1: the manifest a sync run persists is the manifest it fetched, plus the
\* entries whose upload succeeded in the run, minus the entries whose removal
\* succeeded in the run; a failed upload adds or updates nothing and a failed
\* removal leaves its entry in place.
C1_PersistedIsMerge ==
  \A p \in Procs :
    Wrote(p) =>
      /\ manifestObj.kind = "json_object"
      /\ StoredManifest = Merged(remote_files[p], okUploads[p], okRemovals[p])
      /\ \A item \in FailedOf(p, "upload") :
           IF item.remote_name \in DOMAIN remote_files[p]
           THEN /\ item.remote_name \in DOMAIN StoredManifest
                /\ StoredManifest[item.remote_name] = remote_files[p][item.remote_name]
           ELSE item.remote_name \notin DOMAIN StoredManifest
      /\ \A item \in FailedOf(p, "remove") :
           /\ item.remote_name \in DOMAIN StoredManifest
           /\ StoredManifest[item.remote_name] = remote_files[p][item.remote_name]

\* a run that wrote the manifest after one upload succeeded and another failed
C1_Witness ==
  \E p \in Procs :
    /\ Wrote(p)
    /\ okUploads[p] # {}
    /\ FailedOf(p, "upload") # {}

\* the relative name _get_local_files gives file f of p's directory
LocalName(p, f) ==
  GetItemRemoteName(cfg[p].directory,
                    PathJoin(AbsPath(cfg[p].directory), cfg[p].directory, f))

\* the local files of p's directory that an exclude pattern of p matches
ExcludedNames(p) ==
  { LocalName(p, f) : f \in { g \in Files :
      fs[Dir(p)][g] # 0 /\ ~ IncludeFile(LocalName(p, g), cfg[p].exclude_patterns) } }

\* C2: a local file whose relative name matches an exclude pattern is not in
\* the local snapshot, and sync neither uploads it nor schedules it for
\* removal, even when the fetched manifest holds an entry of that name.
C2_ExcludedNeverPlanned ==
  \A p \in Procs :
    (InSync(p) /\ pc[p] \in {"fetch", "spawn", "exit"}) =>
      \A n \in ExcludedNames(p) :
        /\ n \notin DOMAIN local_files[p]
        /\ n \notin NamesOf(Range(actions[p].to_upload))
        /\ n \notin NamesOf(Range(actions[p].to_remove))

\* p is inside the region the lock protects
InRegion(p) == pc[p] \in {"scan", "fetch", "spawn", "exit"}

\* C3: of two runs that target the same local directory, whatever the
\* spelling of the path and the working directory, at most one is inside the
\* protected region.
C3_MutualExclusion ==
  \A p, q \in Procs :
    (p # q /\ InRegion(p) /\ InRegion(q)) => Dir(p) # Dir(q)

\* every task of p's plan has succeeded or failed
AllFinished(p) ==
  /\ spawned[p] = Len(todo[p])
  /\ running[p] = {}
  /\ \A i \in DOMAIN todo[p] :
       \/ todo[p][i] \in failed[p]
       \/ todo[p][i].kind = "upload" /\ todo[p][i].item \in okUploads[p]
       \/ todo[p][i].kind = "remove" /\ todo[p][i].item \in okRemovals[p]

\* C4: a sync run writes the manifest object at most once, exactly once when
\* it ends without error and never when it is interrupted; the write comes
\* only after every scheduled task has finished, and until then the object
\* holds what it held before the run.
C4_ManifestWrittenOnceAfterDrain ==
  /\ [](\A p \in Procs :
          /\ writes[p] <= 1
          /\ (InSync(p) /\ pc[p] = "exit" /\ err[p] = "none") => writes[p] = 1
          /\ err[p] = "Interrupted" => writes[p] = 0)
  /\ [][\A p \in Procs :
          (InSync(p) /\ InRegion(p)
             /\ (manifestObj' # manifestObj \/ writes'[p] > writes[p]))
          => (writes[p] = 0 /\ writes'[p] = 1 /\ AllFinished(p))]_vars

\* a run that wrote the manifest after a removal and an upload had finished
C4_Witness ==
  \E p \in Procs :
    /\ Wrote(p)
    /\ Len(todo[p]) = 2
    /\ okRemovals[p] # {}

\* C5: the tasks of a run that are started and not finished never outnumber
\* the pool's size.
C5_PoolBound ==
  \A p \in Procs : Cardinality(running[p]) <= Concurrency

\* the pool is full while the loop still has an item to hand over
C5_Witness ==
  \E p \in Procs :
    /\ Cardinality(running[p]) = Concurrency
    /\ spawned[p] < Len(todo[p])

\* the manifest step of p's sync run has been taken: every task finished,
\* _upload_manifest called, the manifest stored unless that call failed
ManifestStepTaken(p) ==
  /\ InSync(p)
  /\ pc[p] = "exit"
  /\ AllFinished(p)
  /\ writes[p] = 1 \/ err[p] = "ProviderError"

\* C6: once sync is executing tasks, a failed upload or removal neither stops
\* the other tasks nor aborts the run: every scheduled task finishes, the run
\* goes on to the manifest step and then releases the lock.
C6_FailuresIsolated ==
  /\ [][\A p \in Procs :
          (failed[p] # failed'[p] /\ failed[p] \subseteq failed'[p])
          => (pc'[p] = "spawn" /\ err'[p] = "none")]_vars
  /\ \A p \in Procs :
       (InSync(p) /\ pc[p] = "spawn") ~> ManifestStepTaken(p)
  /\ \A p \in Procs :
       (InSync(p) /\ pc[p] = "spawn") ~> (pc[p] = "done" /\ Lock(p) \notin locks)

\* a run that stored its manifest after a removal had failed
C6_Witness ==
  \E p \in Procs :
    /\ Wrote(p)
    /\ FailedOf(p, "remove") # {}

\* C7: to_upload holds exactly the local entries whose name the manifest
\* lacks or whose last_modified is greater than the manifest's, to_remove
\* exactly the manifest entries whose name is not local, each once; a name in
\* both with an equal or older local timestamp is in neither list.
C7_PlanExact ==
  dOut.done =>
    LET up == Range(dOut.actions.to_upload)
        rm == Range(dOut.actions.to_remove)
    IN /\ up = { dL[n] : n \in { m \in DOMAIN dL :
                   m \notin DOMAIN dR \/ dL[m].last_modified > dR[m].last_modified } }
       /\ rm = { dR[n] : n \in DOMAIN dR \ DOMAIN dL }
       /\ Len(dOut.actions.to_upload) = Cardinality(up)
       /\ Len(dOut.actions.to_remove) = Cardinality(rm)
       /\ \A n \in DOMAIN dL \cap DOMAIN dR :
            dL[n].last_modified <= dR[n].last_modified
            => n \notin NamesOf(up) \cup NamesOf(rm)

\* a plan with an upload, made while another name has equal timestamps
C7_Witness ==
  /\ dOut.done
  /\ dOut.actions.to_upload # <<>>
  /\ \E n \in DOMAIN dL \cap DOMAIN dR : dL[n].last_modified = dR[n].last_modified

\* C8: added, modified and removed are pairwise disjoint, their names are
\* names of L or R, and with the unchanged names (in both, local timestamp
\* not greater) they partition the names of L and R.
C8_DiffPartitions ==
  dOut.done =>
    LET A == DOMAIN dOut.differences.added
        M == DOMAIN dOut.differences.modified
        D == DOMAIN dOut.differences.removed
        U == { n \in DOMAIN dL \cap DOMAIN dR :
                 dL[n].last_modified <= dR[n].last_modified }
        K == DOMAIN dL \cup DOMAIN dR
    IN /\ A \cap M = {} /\ A \cap D = {} /\ M \cap D = {}
       /\ U \cap (A \cup M \cup D) = {}
       /\ (A \cup M \cup D) \subseteq K
       /\ A \cup M \cup D \cup U = K

\* a difference with a modified and a removed name
C8_Witness ==
  /\ dOut.done
  /\ DOMAIN dOut.differences.modified # {}
  /\ DOMAIN dOut.differences.removed # {}

\* p's sync run has planned, right after the sync run `prev` of the same
\* directory and patterns: it scanned the same local snapshot and fetched
\* the manifest prev wrote
SecondRun(p) ==
  /\ InSync(p)
  /\ pc[p] = "spawn"
  /\ prev.kind = "sync"
  /\ prev.directory = cfg[p].directory
  /\ prev.exclude_patterns = cfg[p].exclude_patterns
  /\ fetched[p] = "json_object"
  /\ local_files[p] = prev.local
  /\ remote_files[p] = prev.persisted

C10_CorruptManifestFatal ==
  \A p \in Procs :
    fetched[p] \in {"garbage", "json_array"}
    => (pc[p] = "exit" /\ err[p] = "CorruptedManifest")

\* the errors of the steps of sync that come before the tasks
PlanErrors == {"ScanError", "CorruptedManifest", "AttributeError"}

\* nothing of p's run has been handed to the pool and no manifest written
NothingIssued(p) ==
  /\ spawned[p] = 0
  /\ running[p] = {}
  /\ writes[p] = 0
  /\ okUploads[p] = {} /\ okRemovals[p] = {} /\ failed[p] = {}

\* C11: when the scan, the manifest fetch or parse, the diff or the planning
\* of a sync run raises, the run ends and has issued no upload, no removal
\* and no manifest write: the container is as it was.
C11_PlanFailureBeforeMutation ==
  /\ [](\A p \in Procs :
          (InSync(p) /\ (err[p] \in PlanErrors \/ fetched[p] \in {"garbage", "json_array"}))
          => (pc[p] \in {"exit", "done"} /\ NothingIssued(p)))
  /\ [][\A p \in Procs :
          (InSync(p) /\ err'[p] \in PlanErrors /\ pc[p] \in {"scan", "fetch", "exit"})
          => (objects' = objects /\ manifestObj' = manifestObj)]_vars

\* a sync run ended by a corrupted manifest while it had a file to upload
C11_Witness ==
  \E p \in Procs :
    /\ InSync(p)
    /\ pc[p] = "exit"
    /\ err[p] = "CorruptedManifest"
    /\ DOMAIN local_files[p] # {}

\* C12: a removal that finds no such object counts as a success: the entry
\* is recorded in self._removed and is not in the manifest the run stores.
C12_MissingObjectRemoved ==
  \A p \in Procs :
    \A item \in gone[p] :
      /\ item \in Range(removed[p])
      /\ Wrote(p) => item.remote_name \notin DOMAIN persisted[p]

\* C13: a restore run hands the pool exactly one download per entry of the
\* fetched manifest and nothing else; it scans, diffs and plans nothing, and
\* it never writes the manifest, uploads or deletes an object.
C13_RestoreOnlyDownloads ==
  /\ [](\A p \in Procs :
          (InRestore(p) /\ pc[p] \in {"spawn", "exit"})
          => /\ local_files[p] = EmptyDict /\ actions[p] = NoPlan
             /\ writes[p] = 0 /\ okUploads[p] = {} /\ okRemovals[p] = {}
             /\ uploaded[p] = <<>> /\ removed[p] = <<>>
             /\ \A i \in DOMAIN todo[p] : todo[p][i].kind = "download"
             /\ fetched[p] \in {"absent", "json_object"}
                => /\ Len(todo[p]) = Cardinality(DOMAIN remote_files[p])
                   /\ { todo[p][i].item : i \in DOMAIN todo[p] } = DOMAIN remote_files[p])
  /\ [][\A p \in Procs :
          (InRestore(p) /\ pc[p] # "idle")
          => (manifestObj' = manifestObj /\ objects' = objects)]_vars

\* a restore run that has finished the downloads of a manifest of two entries
C13_Witness ==
  \E p \in Procs :
    /\ InRestore(p)
    /\ pc[p] = "exit"
    /\ err[p] = "none"
    /\ Cardinality(DOMAIN remote_files[p]) = 2
    /\ spawned[p] = 2

\* every download of p's restore run has been handed over and has ended
DownloadsEnded(p) ==
  /\ InRestore(p)
  /\ pc[p] = "exit"
  /\ err[p] = "none"
  /\ spawned[p] = Len(todo[p])
  /\ running[p] = {}

\* C14: in restore, a download whose object is missing is skipped without
\* error, and a download that fails leaves the run going: the other downloads
\* run, the restore completes and the lock is released.
C14_DownloadFailuresIsolated ==
  /\ [][\A p \in Procs :
          (InRestore(p) /\ pc[p] = "spawn" /\ running'[p] # running[p]
             /\ running'[p] \subseteq running[p])
          => /\ pc'[p] = "spawn" /\ err'[p] = "none"
             /\ \A t \in running[p] \ running'[p] :
                  t.item \notin objects => (failed'[p] = failed[p] /\ fs' = fs)]_vars
  /\ \A p \in Procs :
       (InRestore(p) /\ pc[p] = "spawn") ~> DownloadsEnded(p)
  /\ \A p \in Procs :
       (InRestore(p) /\ pc[p] = "spawn") ~> (pc[p] = "done" /\ Lock(p) \notin locks)

\* a restore of two entries that completed although a download failed
C14_Witness ==
  \E p \in Procs :
    /\ DownloadsEnded(p)
    /\ Len(todo[p]) = 2
    /\ failed[p] # {}

\* C15: the lock taken by sync or restore is released on every way out of
\* the protected region, normal or by an error raised inside it: a run that
\* has left the region no longer holds its lock, and no finished run does.
C15_LockReleasedOnEveryExit ==
  /\ [](\A p \in Procs : pc[p] = "done" => Lock(p) \notin locks)
  /\ [](Quiet => locks = {})
  /\ [][\A p \in Procs :
          (pc[p] = "exit" /\ pc'[p] # "exit")
          => (pc'[p] = "done" /\ Lock(p) \notin locks')]_vars

\* a run that has left the region by a failed upload of the manifest
C15_Witness ==
  \E p \in Procs :
    /\ pc[p] = "done"
    /\ err[p] = "ProviderError"

\* p's process has done no I/O: no cache directory or container call, no
\* scan, no manifest fetch, no transfer
NoIO(p) ==
  /\ setup[p] = {}
  /\ local_files[p] = EmptyDict
  /\ fetched[p] = "unread"
  /\ NothingIssued(p)

\* C16: when the lock cannot be acquired because its file cannot be created,
\* the run fails with no remote and no local I/O done before the failure.
C16_LockFailureBeforeIO ==
  \A p \in Procs : err[p] = "LockError" => NoIO(p)

\* the command line of p has a configuration error
CliInvalid(p) ==
  /\ cli[p].used
  /\ ~ (cli[p].required /\ cli[p].provider /\ cli[p].log_level /\ cli[p].directory)

\* C17: a configuration error (missing required option, unknown provider,
\* invalid log level, nonexistent directory) is raised before the lock is
\* taken and before any side effect: no cache directory is made, no
\* container looked up or made, no remote object read or written.
C17_ConfigErrorBeforeEffects ==
  /\ [](\A p \in Procs :
          (err[p] = "ValueError" \/ CliInvalid(p))
          => /\ pc[p] = "done"
             /\ err[p] \in {"ValueError", "TypeError"}
             /\ NoIO(p)
             /\ Lock(p) \notin locks)
  /\ [][\A p \in Procs :
          ((err'[p] = "ValueError" /\ err[p] # "ValueError")
             \/ (CliInvalid(p)' /\ ~ CliInvalid(p)))
          => UNCHANGED << envVars, locks, cache_dir, container >>]_vars

\* FileSyncer has refused a directory that does not exist while no cache
\* directory and no container exist yet
C17_Witness ==
  \E p \in Procs :
    /\ err[p] = "ValueError"
    /\ ~ cli[p].used
    /\ cfg[p].directory = DIR3
    /\ ~ cache_dir /\ ~ container

\* C19: with options that pass all validation, the command line constructs
\* the FileSyncer and calls restore or sync, and the call reaches the lock:
\* the process does not end with an error of the construction or the call.
C19_ValidCliEntersRun ==
  \A p \in Procs :
    (cli[p].used /\ ~ CliInvalid(p))
    => (pc[p] # "idle" /\ err[p] \notin {"TypeError", "ValueError"})

\* the tasks of p's run that have ended
Ended(p) ==
  failed[p]
    \cup { [kind |-> "upload", item |-> item] : item \in okUploads[p] }
    \cup { [kind |-> "remove", item |-> item] : item \in okRemovals[p] }

\* C18: in a sync run every planned item is handed to the pool exactly once,
\* as a task on that very item, which makes one provider call; and no name
\* is both uploaded and removed in the run.
C18_EachItemSpawnedOnce ==
  \A p \in Procs :
    (InSync(p) /\ pc[p] \in {"spawn", "exit"} /\ err[p] \in {"none", "ProviderError"})
    => LET rm == actions[p].to_remove
           up == actions[p].to_upload
       IN /\ Len(todo[p]) = Len(rm) + Len(up)
          /\ \A i \in DOMAIN rm : todo[p][i] = [kind |-> "remove", item |-> rm[i]]
          /\ \A i \in DOMAIN up :
               todo[p][Len(rm) + i] = [kind |-> "upload", item |-> up[i]]
          /\ \A i, j \in DOMAIN todo[p] : i # j => todo[p][i] # todo[p][j]
          /\ { todo[p][i] : i \in 1..spawned[p] } = running[p] \cup Ended(p)
          /\ running[p] \cap Ended(p) = {}
          /\ Len(uploaded[p]) = Cardinality(okUploads[p])
          /\ Len(removed[p]) = Cardinality(okRemovals[p])
          /\ NamesOf(Range(up)) \cap NamesOf(Range(rm)) = {}

\* a run whose removal and upload have both ended
C18_Witness ==
  \E p \in Procs :
    /\ InSync(p)
    /\ pc[p] = "exit"
    /\ err[p] = "none"
    /\ actions[p].to_remove # <<>>
    /\ actions[p].to_upload # <<>>
    /\ AllFinished(p)

\* C20: over the sync calls made on one FileSyncer, the success lists a run
\* computes its manifest from hold only what succeeded in that run: the
\* manifest a run stores is its fetched manifest merged with its own
\* successes, whatever earlier calls recorded.
C20_SuccessListsPerRun ==
  \A p \in Procs :
    (InSync(p) /\ pc[p] \in {"acquire", "scan", "fetch", "spawn", "exit"})
    => /\ Range(uploaded[p]) = okUploads[p]
       /\ Range(removed[p]) = okRemovals[p]
       /\ Wrote(p) => persisted[p] = Merged(remote_files[p], okUploads[p], okRemovals[p])

\* C21: after a sync run in which every upload and every removal succeeded,
\* the names of the stored manifest are the names of the local snapshot the
\* run took, and each name's recorded last_modified is at least the local
\* file's.
C21_CleanRunMirrorsLocal ==
  \A p \in Procs :
    (Wrote(p) /\ failed[p] = {})
    => /\ manifestObj.kind = "json_object"
       /\ DOMAIN StoredManifest = DOMAIN local_files[p]
       /\ \A n \in DOMAIN local_files[p] :
            StoredManifest[n].last_modified >= local_files[p][n].last_modified

\* a run that succeeded throughout, with an upload, while the manifest's
\* entry of another name is newer than the local file
C21_Witness ==
  \E p \in Procs :
    /\ Wrote(p)
    /\ failed[p] = {}
    /\ okUploads[p] # {}
    /\ \E n \in DOMAIN local_files[p] :
         StoredManifest[n].last_modified > local_files[p][n].last_modified

\* p's sync run has read the manifest and not yet written it
BetweenReadAndWrite(p) ==
  /\ InSync(p)
  /\ pc[p] = "spawn"
  /\ fetched[p] \in {"absent", "json_object"}

\* every successful upload of a run that has written is in the stored
\* manifest, unless a run removed that name
NoUploadLost ==
  \A p \in Procs :
    Wrote(p) =>
      \A item \in okUploads[p] :
        \/ item.remote_name \in DOMAIN StoredManifest
        \/ \E q \in Procs : item.remote_name \in NamesOf(okRemovals[q])

\* C22: of two concurrent sync runs on one container, the manifest read and
\* the manifest write of one never interleave with those of the other: no
\* two runs are between read and write together, the manifest a run read is
\* still the stored one until it writes, and no successful upload is lost
\* from the manifest by the other run's write.
C22_ManifestReadWriteAtomic ==
  /\ \A p, q \in Procs :
       p # q => ~ (BetweenReadAndWrite(p) /\ BetweenReadAndWrite(q))
  /\ \A p \in Procs :
       BetweenReadAndWrite(p) => StoredManifest = remote_files[p]
  /\ NoUploadLost

=============================================================================
